---- MODULE Spec2Model ----
(***************************************************************************)
(* remote-api-calendar: the calendar servers of the repository.            *)
(*                                                                         *)
(* The repository holds several stand-alone variants of the server.  Three *)
(* of them are modelled, selected by the variable `server`:                *)
(*   "cors"   src/server.js lines 133-370: HTTP only, asynchronous file    *)
(*            write, checks events/vacations, version from the request     *)
(*            body (src/unnamed/part_000 lines 271-558 has the same        *)
(*            handlers);                                                   *)
(*   "strict" src/unnamed/part_000 lines 1-270: HTTP only, asynchronous    *)
(*            file write, validateCalendarData;                            *)
(*   "ws"     src/server.js lines 371-628: HTTP and WebSocket, synchronous *)
(*            file access, registry `clients`, heartbeat and clean-up      *)
(*            timers.                                                      *)
(*                                                                         *)
(* The stored document is the content of DATA_FILE.  A JavaScript value is *)
(* a record with a tag t (what the value is) and the fields the handlers   *)
(* read; an absent number is Undefined.                                    *)
(***************************************************************************)
EXTENDS Integers, Sequences, FiniteSets, TLC

\* Bounds of the model.
MaxConn == 2
MaxOps == 3
MaxTime == 1

\* WebSocket readyState values (the handlers compare with 1, 2 and 3).
CONNECTING == 0
OPEN == 1
CLOSING == 2
CLOSED == 3

\* A property that is absent, or is not a number.
Undefined == -1
\* broadcast's default excludeClient = null.
NoClient == 0

Conn == 1..MaxConn
Servers == {"cors", "strict", "ws"}

VARIABLES
    server,      \* which variant of the server runs
    file,        \* the parsed content of DATA_FILE
    now,         \* Date.now()
    clients,     \* the Set of registered WebSocket clients
    readyState,  \* readyState of every socket
    sent,        \* per socket, the envelopes handed to ws.send, in order
    inflight,    \* asynchronous fs.writeFile calls not yet completed
    replies,     \* the HTTP replies, in order
    commits,     \* the documents written to DATA_FILE, in order
    nops,        \* number of handler invocations so far
    last,        \* the handler invocation that ran last
    prev,        \* the state in which that invocation started
    regDoc,      \* per socket, what loadData returned when it connected
    broken       \* the sockets a send has failed for: their peer is gone

vars == <<server, file, now, clients, readyState, sent, inflight, replies,
          commits, nops, last, prev, regDoc, broken>>

----------------------------------------------------------------------------
\* JavaScript values

Value(t, keys) == [t |-> t, keys |-> keys]
Map(keys) == Value("object", keys)
NoField == Value("undefined", {})
NullField == Value("null", {})

Doc(t, ev, va, lm, v) ==
    [t |-> t, events |-> ev, vacations |-> va, lastModified |-> lm, version |-> v]

\* A value without the document's properties: undefined, null, a string, an
\* array.
Plain(t) == Doc(t, NoField, NoField, Undefined, Undefined)

\* typeof x: null and arrays are 'object'.
typeof(x) == IF x.t \in {"object", "array", "null"} THEN "object" ELSE x.t

typeofNumber(n) == IF n = Undefined THEN "undefined" ELSE "number"

\* !x is true of undefined and null.
falsy(x) == x.t \in {"undefined", "null"}

\* JSON.parse(JSON.stringify(x)): the named properties of an array are not
\* serialised.
ToJson(x) == IF x.t = "array" THEN Plain("array") ELSE x

initialData(t) == Doc("object", Map({}), Map({}), t, 1)

\* Request bodies and DATA_UPDATE payloads.
Candidates ==
    { Doc("object", Map({"e1"}), Map({}), Undefined, Undefined),
      Doc("object", Map({}), Map({"v1"}), 9, 1),
      Doc("object", Map({}), NoField, Undefined, Undefined),
      Doc("object", NullField, Map({}), 9, 1),
      Plain("array") }

HttpBodies == Candidates \cup {Plain("undefined")}
Payloads == Candidates \cup {Plain("null"), Plain("string")}

Message(decodes, type, data) == [decodes |-> decodes, type |-> type, data |-> data]

Messages ==
    {Message(FALSE, "", Plain("undefined"))}
    \cup {Message(TRUE, "DATA_UPDATE", d) : d \in Payloads}
    \cup {Message(TRUE, "PING", Plain("undefined")),
          Message(TRUE, "REFRESH", Plain("undefined"))}

----------------------------------------------------------------------------
\* Envelopes and replies

InitData(d) == [type |-> "INIT_DATA", data |-> d, timestamp |-> now]

\* A DATA_UPDATE built before the file is written: it carries the document
\* the write replaces.
DataUpdatePrevious(d, source) ==
    [type |-> "DATA_UPDATE", data |-> file, source |-> source, timestamp |-> now]

\* A DATA_UPDATE built from a copy of the candidate made before saveData
\* stamped it.
DataUpdateUnstamped(d, source) ==
    [type |-> "DATA_UPDATE", data |-> [d EXCEPT !.lastModified = Undefined],
     source |-> source, timestamp |-> now]

DataUpdate(d, source) ==
    [type |-> "DATA_UPDATE", data |-> d, source |-> source, timestamp |-> now]

UpdateConfirmed(lm) ==
    [type |-> "UPDATE_CONFIRMED", lastModified |-> lm, timestamp |-> now]

\* A heartbeat that counts only the clients it is sent to.
HeartbeatDataOpenOnly ==
    [type |-> "HEARTBEAT", timestamp |-> now,
     clients |-> Cardinality({c \in clients : readyState[c] = OPEN})]

HeartbeatData ==
    [type |-> "HEARTBEAT", timestamp |-> now, clients |-> Cardinality(clients)]

ErrorEnvelope(message) == [type |-> "ERROR", message |-> message]

Pong == [type |-> "PONG"]

\* m[f] in JavaScript: undefined when m has no property f.
Prop(m, f) == IF f \in DOMAIN m THEN m[f] ELSE Undefined

Reply(id, status, success, lm, v, d) ==
    [id |-> id, status |-> status, success |-> success,
     lastModified |-> lm, version |-> v, data |-> d]

----------------------------------------------------------------------------
\* Store access

\* loadData of the WebSocket server: the parsed file, or a fresh document
\* when reading fails.
loadDataStale(readOk) == initialData(now)
loadData(readOk) == IF readOk THEN file ELSE initialData(now)

\* saveData of the WebSocket server: stamps data.lastModified, writes the
\* file, returns the stamp; throws when the write fails.
saveDataTorn(data, writeOk) ==
    LET stamped == [data EXCEPT !.lastModified = now] IN
    [ok |-> writeOk, lastModified |-> now, data |-> stamped, file |-> ToJson(stamped)]
\* saveData that merges the candidate into the stored document: the keys of
\* the stored events and vacations are kept.
saveDataMerges(data, writeOk) ==
    LET stamped == [data EXCEPT
                       !.lastModified = now,
                       !.events.keys = @ \cup file.events.keys,
                       !.vacations.keys = @ \cup file.vacations.keys] IN
    [ok |-> writeOk, lastModified |-> now, data |-> stamped,
     file |-> IF writeOk THEN ToJson(stamped) ELSE file]

\* saveData that stamps only a document that comes without lastModified.
saveDataKeepsStamp(data, writeOk) ==
    LET stamped == IF data.lastModified = Undefined
                   THEN [data EXCEPT !.lastModified = now] ELSE data IN
    [ok |-> writeOk, lastModified |-> stamped.lastModified, data |-> stamped,
     file |-> IF writeOk THEN ToJson(stamped) ELSE file]

\* saveData that logs a failed write and returns, as loadData does for a
\* failed read.
saveDataSwallows(data, writeOk) ==
    LET stamped == [data EXCEPT !.lastModified = now] IN
    [ok |-> TRUE, lastModified |-> now, data |-> stamped,
     file |-> IF writeOk THEN ToJson(stamped) ELSE file]
saveData(data, writeOk) ==
    LET stamped == [data EXCEPT !.lastModified = now] IN
    [ok |-> writeOk, lastModified |-> now, data |-> stamped,
     file |-> IF writeOk THEN ToJson(stamped) ELSE file]

validateCalendarData(data) ==
    /\ ~falsy(data)
    /\ typeof(data) = "object"
    /\ typeof(data.events) = "object"
    /\ typeof(data.vacations) = "object"
    /\ typeofNumber(data.lastModified) = "number"
    /\ typeofNumber(data.version) = "number"

\* The checks of POST /api/calendar in the "cors" server.
corsValid(newData) ==
    /\ ~falsy(newData)
    /\ typeof(newData) = "object"
    /\ typeof(newData.events) = "object"
    /\ typeof(newData.vacations) = "object"

\* The check shared by POST /api/calendar and DATA_UPDATE in the "ws" server.
wsValidNoNullCheck(data) == typeof(data) = "object"
wsValid(data) == ~falsy(data) /\ typeof(data) = "object"

\* Version assigned by POST /api/calendar.
corsVersion(newData) ==
    IF typeofNumber(newData.version) # "number" THEN 1 ELSE newData.version + 1

strictVersion(newData) ==
    (IF newData.version = Undefined THEN 0 ELSE newData.version) + 1

\* broadcast: the envelope goes to every registered client that is OPEN,
\* except excludeClient.
broadcastEcho(envelope, excludeClient) ==
    [c \in Conn |->
        IF c \in clients /\ readyState[c] = OPEN
        THEN Append(sent[c], envelope) ELSE sent[c]]
broadcastAnyState(envelope, excludeClient) ==
    [c \in Conn |->
        IF c \in clients /\ c # excludeClient
        THEN Append(sent[c], envelope) ELSE sent[c]]
\* broadcast as it would behave if send threw for a socket a send has failed
\* for before: the exception leaves forEach, the clients after it are skipped.
broadcastAbort(envelope, excludeClient) ==
    [c \in Conn |->
        IF /\ c \in clients /\ c # excludeClient /\ readyState[c] = OPEN
           /\ \A d \in clients :
                 (d # excludeClient /\ readyState[d] = OPEN /\ d <= c) => d \notin broken
        THEN Append(sent[c], envelope) ELSE sent[c]]

\* send that throws for a socket a send has failed for before.
sendThrowsBroken(c) == c \in broken

\* client.send(...) inside broadcast: the socket is OPEN and the argument is
\* a string, so the call queues the frame and returns; a write that fails is
\* reported later, by the socket's 'error' and 'close' events.
sendThrows(c) == FALSE

\* The clients broadcast calls send for.
recipients(excludeClient) ==
    {c \in clients : c # excludeClient /\ readyState[c] = OPEN}

\* broadcast has no try/catch: a throwing send would end the forEach.
broadcastThrows(excludeClient) ==
    \E c \in recipients(excludeClient) : sendThrows(c)

\* clients.forEach visits the Set in insertion order, the order in which the
\* sockets connected.
broadcast(envelope, excludeClient) ==
    [c \in Conn |->
        IF /\ c \in recipients(excludeClient)
           /\ \A d \in recipients(excludeClient) : d <= c => ~sendThrows(d)
        THEN Append(sent[c], envelope) ELSE sent[c]]

send(c, envelope) == [sent EXCEPT ![c] = Append(@, envelope)]

----------------------------------------------------------------------------
\* Bookkeeping of the handler that ran

Snapshot ==
    [file |-> file, sent |-> sent, clients |-> clients,
     readyState |-> readyState, now |-> now, replies |-> replies,
     broken |-> broken, ncommits |-> Len(commits)]

\* outcome: "ok", "invalid" (the handler's check rejected the input),
\* "saveFailed" (the file write threw), "readFailed" (the file read threw),
\* "threw" (the file access succeeded and a later statement threw).
Ran(op, c, outcome, cand, counted) ==
    /\ nops' = IF counted THEN nops + 1 ELSE nops
    /\ last' = [op |-> op, conn |-> c, outcome |-> outcome, cand |-> cand]
    /\ prev' = Snapshot

\* Every send of the handler reaches the peer or fails: it fails for a socket
\* whose peer is gone, and the peer of any socket may be found gone.
Transport ==
    \E F \in SUBSET {c \in Conn \ broken : sent'[c] # sent[c]} :
        broken' = broken \cup F

----------------------------------------------------------------------------
Init ==
    /\ server \in Servers
    /\ file = initialData(0)
    /\ now = 0
    /\ clients = {}
    /\ readyState = [c \in Conn |-> CONNECTING]
    /\ sent = [c \in Conn |-> <<>>]
    /\ inflight = {}
    /\ replies = <<>>
    /\ commits = <<>>
    /\ nops = 0
    /\ broken = {}
    /\ last = [op |-> "init", conn |-> NoClient, outcome |-> "ok",
               cand |-> Plain("undefined")]
    /\ prev = Snapshot
    /\ regDoc = [c \in Conn |-> Plain("undefined")]

\* The clock advances.
Tick ==
    /\ now < MaxTime
    /\ now' = now + 1
    /\ UNCHANGED <<server, broken, file, clients, readyState, sent, inflight, replies,
                   commits, nops, last, prev, regDoc>>

----------------------------------------------------------------------------
\* The WebSocket server (src/server.js lines 371-628)

\* wss.on('connection'): registers the socket and sends it the document.
\* Sockets are numbered in the order in which they connect.
Connection(c) ==
    /\ server = "ws"
    /\ nops < MaxOps
    /\ readyState[c] = CONNECTING
    /\ \A d \in Conn : d < c => readyState[d] # CONNECTING
    /\ \E readOk \in BOOLEAN :
          LET currentData == loadData(readOk) IN
          /\ sent' = send(c, InitData(ToJson(currentData)))
          /\ regDoc' = [regDoc EXCEPT ![c] = currentData]
          /\ Ran("connection", c, IF readOk THEN "ok" ELSE "readFailed",
                 Plain("undefined"), TRUE)
    /\ clients' = clients \cup {c}
    /\ readyState' = [readyState EXCEPT ![c] = OPEN]
    /\ UNCHANGED <<server, file, now, inflight, replies, commits>>
    /\ Transport

\* ws.on('message'), case DATA_UPDATE with a payload the check rejects.
DataUpdateInvalid(c, m) ==
    /\ m.decodes /\ m.type = "DATA_UPDATE" /\ ~wsValid(m.data)
    /\ sent' = send(c, ErrorEnvelope("Invalid data format"))
    /\ Ran("dataUpdate", c, "invalid", m.data, TRUE)
    /\ UNCHANGED <<file, commits>>

\* ws.on('message'), case DATA_UPDATE: save, broadcast to the others, confirm
\* to the sender.  A throwing saveData, like any throwing statement of the
\* try block, lands in the catch block.
DataUpdateSave(c, m) ==
    /\ m.decodes /\ m.type = "DATA_UPDATE" /\ wsValid(m.data)
    /\ \E writeOk \in BOOLEAN :
          LET s == saveData(m.data, writeOk) IN
          /\ file' = s.file
          /\ IF s.ok
             THEN /\ sent' = [broadcast(DataUpdate(ToJson(s.data), "client"), c)
                                EXCEPT ![c] = Append(@,
                                    IF broadcastThrows(c)
                                    THEN ErrorEnvelope("Invalid message format")
                                    ELSE UpdateConfirmed(s.lastModified))]
                  /\ commits' = Append(commits, s.file)
             ELSE /\ sent' = send(c, ErrorEnvelope("Invalid message format"))
                  /\ UNCHANGED commits
          /\ Ran("dataUpdate", c,
                 IF ~writeOk THEN "saveFailed"
                 ELSE IF s.ok /\ broadcastThrows(c) THEN "threw" ELSE "ok",
                 m.data, TRUE)

\* A PING answered through broadcast: every registered OPEN socket gets PONG.
PingToAll(c, m) ==
    /\ m.decodes /\ m.type = "PING"
    /\ sent' = broadcast(Pong, NoClient)
    /\ Ran("ping", c, "ok", m.data, TRUE)
    /\ UNCHANGED <<file, commits>>

\* ws.on('message'), case PING.
Ping(c, m) ==
    /\ m.decodes /\ m.type = "PING"
    /\ sent' = send(c, Pong)
    /\ Ran("ping", c, "ok", m.data, TRUE)
    /\ UNCHANGED <<file, commits>>

\* A default branch that answers an unknown type like a message that does
\* not parse.
UnknownTypeRejected(c, m) ==
    /\ m.decodes /\ m.type \notin {"DATA_UPDATE", "PING"}
    /\ sent' = send(c, ErrorEnvelope("Invalid message format"))
    /\ Ran("unknown", c, "ok", m.data, TRUE)
    /\ UNCHANGED <<file, commits>>

\* ws.on('message'), default: only logged.
UnknownType(c, m) ==
    /\ m.decodes /\ m.type \notin {"DATA_UPDATE", "PING"}
    /\ Ran("unknown", c, "ok", m.data, TRUE)
    /\ UNCHANGED <<file, commits, sent>>

\* A catch block that only logs, as the default branch does.
UndecodableSilent(c, m) ==
    /\ ~m.decodes
    /\ Ran("undecodable", c, "invalid", m.data, TRUE)
    /\ UNCHANGED <<file, commits, sent>>

\* ws.on('message'), JSON.parse throws.
Undecodable(c, m) ==
    /\ ~m.decodes
    /\ sent' = send(c, ErrorEnvelope("Invalid message format"))
    /\ Ran("undecodable", c, "invalid", m.data, TRUE)
    /\ UNCHANGED <<file, commits>>

\* ws.on('message'): a message arrives on an open socket.
OnMessage(c) ==
    /\ server = "ws"
    /\ nops < MaxOps
    /\ readyState[c] = OPEN
    /\ \E m \in Messages :
          \/ DataUpdateInvalid(c, m)
          \/ DataUpdateSave(c, m)
          \/ Ping(c, m)
          \/ UnknownType(c, m)
          \/ Undecodable(c, m)
    /\ UNCHANGED <<server, now, clients, readyState, inflight, replies, regDoc>>
    /\ Transport

\* The peer starts closing: the socket is CLOSING until its 'close' event.
Closing(c) ==
    /\ readyState[c] = OPEN
    /\ c \notin broken
    /\ readyState' = [readyState EXCEPT ![c] = CLOSING]
    /\ Ran("socket", c, "ok", Plain("undefined"), FALSE)
    /\ UNCHANGED <<server, broken, file, now, clients, sent, inflight, replies,
                   commits, regDoc>>

\* The failed writes surface: the socket leaves OPEN, its 'error' and 'close'
\* events follow.
Fail(c) ==
    /\ readyState[c] = OPEN
    /\ c \in broken
    /\ readyState' = [readyState EXCEPT ![c] = CLOSING]
    /\ Ran("socket", c, "ok", Plain("undefined"), FALSE)
    /\ UNCHANGED <<server, broken, file, now, clients, sent, inflight, replies,
                   commits, regDoc>>

\* A registry kept in an array: splice(indexOf(ws), 1) removes the last
\* element when ws is not in the array.
unregisterSplice(c) ==
    IF c \in clients \/ clients = {} THEN clients \ {c}
    ELSE clients \ {CHOOSE x \in clients : \A y \in clients : y <= x}

\* clients.delete(ws).
unregister(c) == clients \ {c}

\* ws.on('close'): the socket is CLOSED when the event is emitted, and no
\* send is attempted on it any more.
OnClose(c) ==
    /\ server = "ws"
    /\ nops < MaxOps
    /\ readyState[c] \in {OPEN, CLOSING}
    /\ readyState' = [readyState EXCEPT ![c] = CLOSED]
    /\ clients' = unregister(c)
    /\ broken' = broken \ {c}
    /\ Ran("close", c, "ok", Plain("undefined"), TRUE)
    /\ UNCHANGED <<server, file, now, sent, inflight, replies, commits, regDoc>>

\* An error handler that leaves the failed socket in the registry.
OnErrorKeeps(c) ==
    /\ server = "ws"
    /\ nops < MaxOps
    /\ readyState[c] \in {OPEN, CLOSING}
    /\ readyState' = [readyState EXCEPT ![c] = CLOSING]
    /\ Ran("error", c, "ok", Plain("undefined"), TRUE)
    /\ UNCHANGED <<server, broken, file, now, clients, sent, inflight, replies,
                   commits, regDoc>>

\* ws.on('error'): a failed socket is CLOSING when the event is emitted.
OnError(c) ==
    /\ server = "ws"
    /\ nops < MaxOps
    /\ readyState[c] \in {OPEN, CLOSING}
    /\ readyState' = [readyState EXCEPT ![c] = CLOSING]
    /\ clients' = unregister(c)
    /\ Ran("error", c, "ok", Plain("undefined"), TRUE)
    /\ UNCHANGED <<server, broken, file, now, sent, inflight, replies, commits, regDoc>>

\* A heartbeat without the readyState test: HEARTBEAT to every registered
\* client.
HeartbeatToRegistered ==
    /\ server = "ws"
    /\ nops < MaxOps
    /\ sent' = [c \in Conn |->
                  IF c \in clients THEN Append(sent[c], HeartbeatData) ELSE sent[c]]
    /\ Ran("heartbeat", NoClient, "ok", Plain("undefined"), TRUE)
    /\ UNCHANGED <<server, file, now, clients, readyState, inflight, replies,
                   commits, regDoc>>
    /\ Transport

\* setInterval, 30000: HEARTBEAT to every registered client that is OPEN.
Heartbeat ==
    /\ server = "ws"
    /\ nops < MaxOps
    /\ sent' = [c \in Conn |->
                  IF c \in clients /\ readyState[c] = OPEN
                  THEN Append(sent[c], HeartbeatData) ELSE sent[c]]
    /\ Ran("heartbeat", NoClient, "ok", Plain("undefined"), TRUE)
    /\ UNCHANGED <<server, file, now, clients, readyState, inflight, replies,
                   commits, regDoc>>
    /\ Transport

\* The clean-up timer as it would behave if it only looked for CLOSED sockets.
reapableClosedOnly(c) == readyState[c] = CLOSED

\* The clean-up timer's test: readyState is 2 or 3.
reapable(c) == readyState[c] \in {CLOSING, CLOSED}

\* A clean-up timer that empties the registry once it finds a client to drop.
ReapClears ==
    /\ server = "ws"
    /\ \E c \in clients : reapable(c)
    /\ clients' = {}
    /\ Ran("reap", NoClient, "ok", Plain("undefined"), FALSE)
    /\ UNCHANGED <<server, broken, file, now, readyState, sent, inflight, replies,
                   commits, regDoc>>

\* setInterval, 60000: drops the registered clients that are CLOSING or CLOSED.
\* The timer fires for as long as the process runs, so it is not one of the
\* MaxOps invocations; a tick that finds no such client changes nothing.
Reap ==
    /\ server = "ws"
    /\ \E c \in clients : reapable(c)
    /\ clients' = {c \in clients : ~reapable(c)}
    /\ Ran("reap", NoClient, "ok", Plain("undefined"), FALSE)
    /\ UNCHANGED <<server, broken, file, now, readyState, sent, inflight, replies,
                   commits, regDoc>>

\* app.get('/api/calendar') of the WebSocket server.
GetWs ==
    /\ server = "ws"
    /\ nops < MaxOps
    /\ \E readOk \in BOOLEAN :
          /\ replies' = Append(replies,
                 Reply(nops + 1, 200, TRUE, Undefined, Undefined, ToJson(loadData(readOk))))
          /\ Ran("get", NoClient, IF readOk THEN "ok" ELSE "readFailed",
                 Plain("undefined"), TRUE)
    /\ UNCHANGED <<server, broken, file, now, clients, readyState, sent, inflight,
                   commits, regDoc>>

\* app.post('/api/calendar') of the WebSocket server.
PostWs(newData) ==
    /\ server = "ws"
    /\ nops < MaxOps
    /\ IF ~wsValid(newData)
       THEN /\ replies' = Append(replies,
                   Reply(nops + 1, 400, FALSE, Undefined, Undefined, Plain("undefined")))
            /\ Ran("post", NoClient, "invalid", newData, TRUE)
            /\ UNCHANGED <<file, sent, commits>>
       ELSE \E writeOk \in BOOLEAN :
              LET s == saveData(newData, writeOk) IN
              /\ file' = s.file
              /\ IF s.ok
                 THEN /\ sent' = broadcast(DataUpdate(ToJson(s.data), "http"), NoClient)
                      /\ replies' = Append(replies,
                             IF broadcastThrows(NoClient)
                             THEN Reply(nops + 1, 500, FALSE, Undefined, Undefined,
                                        Plain("undefined"))
                             ELSE Reply(nops + 1, 200, TRUE, s.lastModified, Undefined,
                                        Plain("undefined")))
                      /\ commits' = Append(commits, s.file)
                 ELSE /\ replies' = Append(replies,
                             Reply(nops + 1, 500, FALSE, Undefined, Undefined,
                                   Plain("undefined")))
                      /\ UNCHANGED <<sent, commits>>
              /\ Ran("post", NoClient,
                     IF ~writeOk THEN "saveFailed"
                     ELSE IF s.ok /\ broadcastThrows(NoClient) THEN "threw" ELSE "ok",
                     newData, TRUE)
    /\ UNCHANGED <<server, now, clients, readyState, inflight, regDoc>>
    /\ Transport

----------------------------------------------------------------------------
\* The HTTP-only servers ("cors": src/server.js lines 133-370, "strict":
\* src/unnamed/part_000 lines 1-270)

\* What POST /api/calendar accepts, and the document it then writes.
postValid(newData) ==
    IF server = "strict" THEN validateCalendarData(newData) ELSE corsValid(newData)

postStamped(newData) ==
    [newData EXCEPT !.lastModified = now,
                    !.version = IF server = "strict" THEN strictVersion(newData)
                                ELSE corsVersion(newData)]

\* app.post('/api/calendar') up to `await fs.writeFile`: the checks, the
\* stamping, and the start of the write.
PostBegin(newData) ==
    /\ server \in {"cors", "strict"}
    /\ nops < MaxOps
    /\ IF ~postValid(newData)
       THEN /\ replies' = Append(replies,
                   Reply(nops + 1, 400, FALSE, Undefined, Undefined, Plain("undefined")))
            /\ Ran("post", NoClient, "invalid", newData, TRUE)
            /\ UNCHANGED inflight
       ELSE /\ inflight' = inflight \cup
                   {[id |-> nops + 1, body |-> newData, data |-> postStamped(newData)]}
            /\ Ran("postBegin", NoClient, "ok", newData, TRUE)
            /\ UNCHANGED replies
    /\ UNCHANGED <<server, broken, file, now, clients, readyState, sent, commits, regDoc>>

\* Object.keys(x) throws a TypeError for null and undefined.
keysThrows(x) == x.t \in {"null", "undefined"}

\* The "cors" server counts Object.keys(events) and Object.keys(vacations)
\* when it builds the reply of a POST and when it logs a GET.
countsThrow(data) ==
    server = "cors" /\ (keysThrows(data.events) \/ keysThrows(data.vacations))

\* app.post('/api/calendar') after `await fs.writeFile`: the write completed
\* or failed, and the reply is sent.
PostWritten(w) ==
    /\ w \in inflight
    /\ inflight' = inflight \ {w}
    /\ \E writeOk \in BOOLEAN :
          LET outcome == IF ~writeOk THEN "saveFailed"
                         ELSE IF countsThrow(w.data) THEN "threw" ELSE "ok" IN
          /\ file' = IF writeOk THEN ToJson(w.data) ELSE file
          /\ commits' = IF writeOk THEN Append(commits, ToJson(w.data)) ELSE commits
          /\ replies' = Append(replies,
                IF outcome = "ok"
                THEN Reply(w.id, 200, TRUE, w.data.lastModified, w.data.version,
                           Plain("undefined"))
                ELSE Reply(w.id, 500, FALSE, Undefined, Undefined, Plain("undefined")))
          /\ Ran("post", NoClient, outcome, w.body, FALSE)
    /\ UNCHANGED <<server, broken, now, clients, readyState, sent, regDoc>>

\* app.get('/api/calendar') of the HTTP-only servers.
Get ==
    /\ server \in {"cors", "strict"}
    /\ nops < MaxOps
    /\ \E readOk \in BOOLEAN :
          LET outcome == IF ~readOk THEN "readFailed"
                         ELSE IF countsThrow(file) THEN "threw" ELSE "ok" IN
          /\ replies' = Append(replies,
                IF outcome = "ok"
                THEN Reply(nops + 1, 200, TRUE, Undefined, Undefined, file)
                ELSE Reply(nops + 1, 500, FALSE, Undefined, Undefined, Plain("undefined")))
          /\ Ran("get", NoClient, outcome, Plain("undefined"), TRUE)
    /\ UNCHANGED <<server, broken, file, now, clients, readyState, sent, inflight,
                   commits, regDoc>>

----------------------------------------------------------------------------
Next ==
    \/ Tick
    \/ \E c \in Conn : Connection(c)
    \/ \E c \in Conn : OnMessage(c)
    \/ \E c \in Conn : Closing(c)
    \/ \E c \in Conn : Fail(c)
    \/ \E c \in Conn : OnClose(c)
    \/ \E c \in Conn : OnError(c)
    \/ Heartbeat
    \/ Reap
    \/ GetWs
    \/ \E newData \in HttpBodies : PostWs(newData)
    \/ \E newData \in HttpBodies : PostBegin(newData)
    \/ \E w \in inflight : PostWritten(w)
    \/ Get

Spec == Init /\ [][Next]_vars

\* The clean-up timer keeps firing, and the failed writes of a socket whose
\* peer is gone do surface.
LiveSpec ==
    /\ Init /\ [][Next]_vars
    /\ WF_vars(Reap)
    /\ \A c \in Conn : WF_vars(Fail(c))

----------------------------------------------------------------------------
\* Properties.  `last` names the handler that ran last and `prev` the state
\* in which it started, so "after the handler" reads: last.op = ... => a
\* relation between prev and the current state.

Num(v) == IF v = Undefined THEN 0 ELSE v

Final(seq) == seq[Len(seq)]

\* The envelopes the last handler sent to c.
NewMsgs(c) == SubSeq(sent[c], Len(prev.sent[c]) + 1, Len(sent[c]))

CountType(seq, type) == Cardinality({i \in 1..Len(seq) : seq[i].type = type})

\* The last handler was a write (HTTP POST or DATA_UPDATE) that was stored.
AcceptedWrite == last.op \in {"post", "dataUpdate"} /\ last.outcome \in {"ok", "threw"}

\* c was registered and OPEN when the last handler started.
WasAlive(c) == c \in prev.clients /\ prev.readyState[c] = OPEN

\* C1: every accepted write, by HTTP POST or by DATA_UPDATE, stores a version
\* equal to the previously stored version plus 1 (an absent version counting
\* as 0) and a lastModified not below the previously stored one.
C1_VersionPlusOne ==
    AcceptedWrite =>
        /\ file.version = Num(prev.file.version) + 1
        /\ file.lastModified # Undefined
        /\ file.lastModified >= Num(prev.file.lastModified)

\* C2: the commits carry unique, strictly increasing versions: in the order in
\* which the documents were written, every version is larger than the one
\* before (an absent version counting as 0).
C2_UniqueVersions ==
    \A i \in 2..Len(commits) :
        Num(commits[i - 1].version) < Num(commits[i].version)

C4_FailedSaveKeepsDocument ==
    (last.op \in {"post", "dataUpdate"} /\ last.outcome = "saveFailed") =>
        /\ file = prev.file
        /\ loadData(TRUE) = prev.file

\* A failed write of a well-formed candidate after an earlier write was stored.
C4_Witness ==
    /\ last.op \in {"post", "dataUpdate"}
    /\ last.outcome = "saveFailed"
    /\ Len(commits) >= 1
    /\ last.cand.events # file.events

\* C5: after a stored DATA_UPDATE every other socket that was registered and
\* OPEN has received exactly one DATA_UPDATE envelope from that handler; the
\* sender, and every socket not registered or not OPEN, has received none.
C5_BroadcastToOthers ==
    (last.op = "dataUpdate" /\ last.outcome = "ok") =>
        \A c \in Conn :
            CountType(NewMsgs(c), "DATA_UPDATE") =
                IF c # last.conn /\ WasAlive(c) THEN 1 ELSE 0

\* A stored DATA_UPDATE sent while another socket was registered and OPEN.
C5_Witness ==
    /\ last.op = "dataUpdate"
    /\ last.outcome = "ok"
    /\ WasAlive(last.conn)
    /\ \E c \in Conn : c # last.conn /\ WasAlive(c)

\* C6: after a stored DATA_UPDATE the sender, and only the sender, has received
\* one UPDATE_CONFIRMED whose lastModified and version are those of the stored
\* document, and the DATA_UPDATE broadcast carries that version.
C6_ConfirmedCarriesVersion ==
    (last.op = "dataUpdate" /\ last.outcome = "ok") =>
        /\ \A c \in Conn :
              CountType(NewMsgs(c), "UPDATE_CONFIRMED") = IF c = last.conn THEN 1 ELSE 0
        /\ LET m == Final(sent[last.conn]) IN
              /\ m.type = "UPDATE_CONFIRMED"
              /\ Prop(m, "lastModified") = file.lastModified
              /\ Prop(m, "version") # Undefined
              /\ Prop(m, "version") = file.version
        /\ \A c \in Conn :
              (c # last.conn /\ WasAlive(c)) => Final(sent[c]).data.version = file.version

\* C7: a DATA_UPDATE whose payload is not of type object (null, a string)
\* sends one ERROR envelope to the sender, nothing to any other socket, and
\* leaves the stored document as it was.
C7_NonObjectPayload ==
    (last.op = "dataUpdate" /\ last.cand.t \notin {"object", "array"}) =>
        /\ file = prev.file
        /\ sent[last.conn] = Append(prev.sent[last.conn], ErrorEnvelope("Invalid data format"))
        /\ \A c \in Conn : c # last.conn => sent[c] = prev.sent[c]

\* A null payload sent while another socket was registered and OPEN.
C7_Witness ==
    /\ last.op = "dataUpdate"
    /\ last.cand.t = "null"
    /\ \E c \in Conn : c # last.conn /\ WasAlive(c)

\* C8: the stored document always has events and vacations as maps.
C8_StoredShape ==
    /\ file.t = "object"
    /\ file.events.t = "object"
    /\ file.vacations.t = "object"

\* C9: from the stored document {events:{}, vacations:{}, version:1}, the POST
\* of {events:{e1}, vacations:{}} without a version is answered with success
\* and version 2 once its write succeeds, and the document a GET then reads
\* has e1 in its events and version 2.
C9_FirstPost ==
    ( /\ last.op = "post"
      /\ last.outcome # "saveFailed"
      /\ last.cand = Doc("object", Map({"e1"}), Map({}), Undefined, Undefined)
      /\ prev.file.events = Map({}) /\ prev.file.vacations = Map({})
      /\ prev.file.version = 1 ) =>
        /\ Final(replies).success
        /\ Final(replies).version = 2
        /\ "e1" \in file.events.keys
        /\ file.version = 2

\* C10: after a stored HTTP POST every socket that was registered and OPEN has
\* received one more envelope, a DATA_UPDATE carrying the stored document, no
\* other socket has received anything, and the caller got one success reply.
C10_PostBroadcasts ==
    (last.op = "post" /\ last.outcome = "ok") =>
        /\ \A c \in Conn :
              IF WasAlive(c)
              THEN /\ Len(sent[c]) = Len(prev.sent[c]) + 1
                   /\ NewMsgs(c)[1].type = "DATA_UPDATE"
                   /\ NewMsgs(c)[1].data = file
              ELSE sent[c] = prev.sent[c]
        /\ Len(replies) = Len(prev.replies) + 1
        /\ Final(replies).success
        /\ Final(replies).status = 200

\* A stored POST while one socket was registered and OPEN and another was
\* registered and CLOSING.
C10_Witness ==
    /\ last.op = "post"
    /\ last.outcome = "ok"
    /\ \E c \in Conn : WasAlive(c)
    /\ \E c \in Conn : c \in prev.clients /\ prev.readyState[c] = CLOSING

\* Events and vacations are both present, as maps.
WellShaped(d) ==
    d.t = "object" /\ d.events.t = "object" /\ d.vacations.t = "object"

\* C11: an HTTP POST whose body is not an object holding events and vacations
\* as maps is answered with status 400 and success false, leaves the stored
\* document as it was and sends nothing to any socket.
C11_MalformedPostRejected ==
    (last.op = "post" /\ ~WellShaped(last.cand)) =>
        /\ Len(replies) = Len(prev.replies) + 1
        /\ ~Final(replies).success
        /\ Final(replies).status = 400
        /\ file = prev.file
        /\ sent = prev.sent

\* The last handler broadcast an envelope: a stored write, or the heartbeat.
Broadcasting ==
    AcceptedWrite \/ last.op = "heartbeat"

\* broadcast called send for c.
WasRecipient(c) == WasAlive(c) /\ c # last.conn

\* The last handler called send for c inside a broadcast, and the send failed.
FailedSend(c) == Broadcasting /\ WasRecipient(c) /\ c \in broken

Persisted ==
    last.op \in {"post", "dataUpdate"} /\ Len(commits) = prev.ncommits + 1

\* C13: when the document of a write was written to the file and a send of
\* its broadcast failed, the HTTP caller still gets one success reply, and a
\* DATA_UPDATE sender still gets UPDATE_CONFIRMED and no ERROR.
C13_FailureNotSurfaced ==
    (Persisted /\ \E c \in Conn : WasRecipient(c) /\ c \in broken) =>
        IF last.op = "post"
        THEN /\ Len(replies) = Len(prev.replies) + 1
             /\ Final(replies).success
             /\ Final(replies).status = 200
        ELSE /\ Len(NewMsgs(last.conn)) = 1
             /\ Final(sent[last.conn]).type = "UPDATE_CONFIRMED"

\* A stored DATA_UPDATE whose confirmation reached the sender and whose
\* broadcast failed for another socket.
C13_Witness ==
    /\ Persisted
    /\ last.op = "dataUpdate"
    /\ last.conn \notin broken
    /\ \E c \in Conn : WasRecipient(c) /\ c \in broken

\* C14: a registered socket for which the sends fail is eventually no longer
\* in the registry, so clients.size no longer counts it.
C14_EventuallyReaped ==
    \A c \in Conn : (c \in clients /\ c \in broken) ~> (c \notin clients)

\* The clean-up timer has just removed a socket for which a send had failed.
C14_Witness ==
    /\ last.op = "reap"
    /\ \E c \in Conn : c \in prev.clients /\ c \in broken /\ c \notin clients

RECURSIVE IsSubSeq(_, _)
\* s is t with some of its elements left out.
IsSubSeq(s, t) ==
    IF s = <<>> THEN TRUE
    ELSE IF t = <<>> THEN FALSE
    ELSE IF Head(s) = Head(t) THEN IsSubSeq(Tail(s), Tail(t))
    ELSE IsSubSeq(s, Tail(t))

\* The documents of the DATA_UPDATE envelopes sent to c, in the order sent.
UpdateDocs(c) ==
    LET IsUpdate(e) == e.type = "DATA_UPDATE"
        updates == SelectSeq(sent[c], IsUpdate)
    IN [i \in 1..Len(updates) |-> updates[i].data]

\* C15: in the WebSocket server a write is one step: the document it writes
\* is the last commit when its broadcast goes out, no write is pending in
\* between, and the DATA_UPDATE envelopes a socket has been sent carry
\* committed documents in the order of the commits.
C15_BroadcastsInCommitOrder ==
    server = "ws" =>
        /\ inflight = {}
        /\ \A c \in Conn : IsSubSeq(UpdateDocs(c), commits)
        /\ AcceptedWrite =>
              /\ Final(commits) = file
              /\ \A c \in Conn :
                    WasRecipient(c) => Final(UpdateDocs(c)) = Final(commits)

\* A socket that has been sent the DATA_UPDATE envelopes of two writes that
\* stored different documents.
C15_Witness ==
    \E c \in Conn :
        /\ readyState[c] = OPEN
        /\ Len(UpdateDocs(c)) >= 2
        /\ UpdateDocs(c)[1] # UpdateDocs(c)[2]
        /\ commits = UpdateDocs(c)

\* C16: when the file write of a write fails, the HTTP caller gets one reply
\* with status 500 and success false and no socket is sent anything; a
\* DATA_UPDATE sender is sent one ERROR envelope and nothing else, and no
\* other socket is sent anything.
C16_SaveFailureToCallerOnly ==
    (last.op \in {"post", "dataUpdate"} /\ last.outcome = "saveFailed") =>
        IF last.op = "post"
        THEN /\ Len(replies) = Len(prev.replies) + 1
             /\ ~Final(replies).success
             /\ Final(replies).status = 500
             /\ sent = prev.sent
        ELSE /\ Len(NewMsgs(last.conn)) = 1
             /\ Final(sent[last.conn]).type = "ERROR"
             /\ \A c \in Conn : c # last.conn => sent[c] = prev.sent[c]
             /\ replies = prev.replies

\* A DATA_UPDATE whose write failed while another socket was registered and
\* OPEN.
C16_Witness ==
    /\ last.op = "dataUpdate"
    /\ last.outcome = "saveFailed"
    /\ \E c \in Conn : WasRecipient(c)

\* What C17 says of a message that does not parse, but for the text of the
\* ERROR envelope: the sender is sent one ERROR envelope with that text and
\* stays registered and OPEN, the stored document is as it was, and no other
\* socket is sent anything.
UndecodableAnswered(text) ==
    last.op = "undecodable" =>
        /\ sent[last.conn] = Append(prev.sent[last.conn], ErrorEnvelope(text))
        /\ \A c \in Conn : c # last.conn => sent[c] = prev.sent[c]
        /\ clients = prev.clients
        /\ last.conn \in clients
        /\ readyState = prev.readyState
        /\ readyState[last.conn] = OPEN
        /\ file = prev.file
        /\ Len(commits) = prev.ncommits

\* C17, as the specification states it: the ERROR envelope's message is
\* "invalid message format".
C17_UndecodableLowerCase == UndecodableAnswered("invalid message format")

\* C17, amended: the ERROR envelope's message is "Invalid message format".
C17_UndecodableAnswered == UndecodableAnswered("Invalid message format")

\* A message that does not parse, sent while another socket was registered
\* and OPEN.
C17_Witness ==
    /\ last.op = "undecodable"
    /\ \E c \in Conn : WasRecipient(c)

\* The lastModified values a client may put into a candidate.
ClientStamps == {Undefined, 0, 9}

\* Whether the running server accepts the candidate d, and the document it
\* writes for it when started in the current state.
Accepts(d) == IF server = "ws" THEN wsValid(d) ELSE postValid(d)
Committed(d) ==
    IF server = "ws" THEN saveData(d, TRUE).file ELSE ToJson(postStamped(d))

\* C18: the lastModified of a stored document is the server's clock reading,
\* whatever lastModified the client supplied: two accepted candidates that
\* differ only in lastModified are stored with the same lastModified, and the
\* stored lastModified of an object candidate is the clock of the handler
\* that stamped it.
C18_ServerAssignsLastModified ==
    /\ \A d \in Candidates : \A lm \in ClientStamps :
          LET e == [d EXCEPT !.lastModified = lm] IN
          (Accepts(d) /\ Accepts(e)) =>
              Committed(d).lastModified = Committed(e).lastModified
    /\ (AcceptedWrite /\ last.cand.t = "object") =>
          IF server = "ws" THEN file.lastModified = prev.now
          ELSE file.lastModified \in 0..prev.now

\* A stored write of a candidate that came with lastModified 9, while the
\* clock read 1.
C18_Witness ==
    /\ AcceptedWrite
    /\ last.cand.lastModified = 9
    /\ prev.now = 1
    /\ file.lastModified = 1

\* C19: a GET during which reading the file fails is answered with status
\* 500 and success false.
C19_FailedLoadReported ==
    (last.op = "get" /\ last.outcome = "readFailed") =>
        /\ Len(replies) = Len(prev.replies) + 1
        /\ ~Final(replies).success
        /\ Final(replies).status = 500

\* C20: the close and error handlers leave the registry without their socket
\* and otherwise as it was, so for a socket that is no longer registered (a
\* close after an error, or after the clean-up timer) the registry is
\* unchanged; and after the clean-up timer has run, running it again would
\* remove nothing.
C20_UnregisterIdempotent ==
    /\ last.op \in {"close", "error"} =>
          /\ clients = prev.clients \ {last.conn}
          /\ last.conn \notin prev.clients => clients = prev.clients
          /\ last.outcome = "ok"
    /\ last.op = "reap" =>
          /\ clients \subseteq prev.clients
          /\ {c \in clients : ~reapable(c)} = clients

\* The close or error event of a socket that was no longer registered, while
\* another socket was.
C20_Witness ==
    /\ last.op \in {"close", "error"}
    /\ last.conn \notin prev.clients
    /\ prev.clients # {}

\* C21: a PING sends one PONG envelope to the sender and nothing to any other
\* socket, and leaves the stored document, the registry and the readyState
\* of every socket as they were.
C21_PingPong ==
    last.op = "ping" =>
        /\ sent[last.conn] = Append(prev.sent[last.conn], Pong)
        /\ \A c \in Conn : c # last.conn => sent[c] = prev.sent[c]
        /\ file = prev.file
        /\ Len(commits) = prev.ncommits
        /\ clients = prev.clients
        /\ readyState = prev.readyState
        /\ replies = prev.replies

\* A PING sent while another socket was registered and OPEN.
C21_Witness ==
    /\ last.op = "ping"
    /\ \E c \in Conn : WasRecipient(c)

\* C22: a message that parses and whose type is neither DATA_UPDATE nor PING
\* sends nothing to any socket and leaves the stored document, the registry
\* and every readyState as they were: the sender is still registered and OPEN.
C22_UnknownTypeIgnored ==
    last.op = "unknown" =>
        /\ sent = prev.sent
        /\ file = prev.file
        /\ Len(commits) = prev.ncommits
        /\ clients = prev.clients
        /\ readyState = prev.readyState
        /\ last.conn \in clients
        /\ readyState[last.conn] = OPEN
        /\ replies = prev.replies

\* A message of unknown type sent while another socket was registered and
\* OPEN.
C22_Witness ==
    /\ last.op = "unknown"
    /\ \E c \in Conn : WasRecipient(c)

\* The envelopes of the last handler that announce a stored write.
Announces(e) == e.type \in {"DATA_UPDATE", "UPDATE_CONFIRMED"}

\* C23: after an accepted write the stored events and vacations are those of
\* the candidate, with no key of the previous document kept; and a handler
\* that has sent a DATA_UPDATE or UPDATE_CONFIRMED envelope, or a success
\* reply to a POST, has written its document to the file.
C23_WholeDocumentReplaced ==
    /\ AcceptedWrite =>
          /\ file.events = last.cand.events
          /\ file.vacations = last.cand.vacations
          /\ Persisted
          /\ Final(commits) = file
    /\ \A c \in Conn : \A i \in 1..Len(NewMsgs(c)) :
          Announces(NewMsgs(c)[i]) => (Persisted /\ last.outcome # "saveFailed")
    /\ (last.op = "post" /\ Len(replies) > Len(prev.replies) /\ Final(replies).success) =>
          (Persisted /\ last.outcome # "saveFailed")

\* An accepted write whose candidate lacks a key of the previous document,
\* broadcast to a registered OPEN socket.
C23_Witness ==
    /\ AcceptedWrite
    /\ \E k \in prev.file.events.keys : k \notin last.cand.events.keys
    /\ \E c \in Conn : WasRecipient(c) /\ Len(NewMsgs(c)) = 1

\* C24: every socket the last handler called send for was OPEN at
\* the send: the socket of a connection event is OPEN when INIT_DATA is sent,
\* and the sockets any other handler sends to (broadcast, heartbeat,
\* UPDATE_CONFIRMED, PONG, ERROR) were OPEN when the handler started and
\* still are.
C24_SendsOnlyToOpen ==
    \A c \in Conn :
        sent[c] # prev.sent[c] =>
            /\ readyState[c] = OPEN
            /\ IF last.op = "connection"
               THEN c = last.conn
               ELSE prev.readyState[c] = OPEN

\* A heartbeat or a stored write while one registered socket was OPEN, and
\* was sent to, and another was registered and CLOSING.
C24_Witness ==
    /\ Broadcasting
    /\ \E c \in Conn : WasAlive(c) /\ sent[c] # prev.sent[c]
    /\ \E c \in Conn :
          c \in prev.clients /\ prev.readyState[c] = CLOSING /\ sent[c] = prev.sent[c]

\* C25: a heartbeat sends one HEARTBEAT envelope, whose clients field is the
\* size of the registry when the timer fired, to every socket that was
\* registered and OPEN and nothing to any other socket, and leaves the stored
\* document, the registry and every readyState as they were.
C25_HeartbeatTick ==
    last.op = "heartbeat" =>
        /\ \A c \in Conn :
              sent[c] =
                  IF WasAlive(c)
                  THEN Append(prev.sent[c],
                              [type |-> "HEARTBEAT", timestamp |-> prev.now,
                               clients |-> Cardinality(prev.clients)])
                  ELSE prev.sent[c]
        /\ file = prev.file
        /\ Len(commits) = prev.ncommits
        /\ clients = prev.clients
        /\ readyState = prev.readyState

\* A heartbeat while one socket was registered and OPEN and another was
\* registered and CLOSING: the envelope counts both.
C25_Witness ==
    /\ last.op = "heartbeat"
    /\ \E c \in Conn : WasAlive(c) /\ Final(sent[c]).clients = 2
    /\ \E c \in Conn : c \in prev.clients /\ prev.readyState[c] = CLOSING

\* C26: after the clean-up timer no registered socket is CLOSING or
\* CLOSED, every socket that was registered and OPEN is still registered, and
\* nothing else has changed.
C26_NoClosingAfterReap ==
    last.op = "reap" =>
        /\ \A c \in clients : readyState[c] \notin {CLOSING, CLOSED}
        /\ \A c \in Conn : WasAlive(c) => c \in clients
        /\ clients \subseteq prev.clients
        /\ readyState = prev.readyState
        /\ sent = prev.sent
        /\ file = prev.file

\* The clean-up timer has removed a CLOSING socket and kept an OPEN one.
C26_Witness ==
    /\ last.op = "reap"
    /\ \E c \in Conn : WasAlive(c) /\ c \in clients
    /\ \E c \in Conn : c \in prev.clients /\ c \notin clients

\* C27: every DATA_UPDATE envelope ever sent carries a document that was
\* written to the file, and the envelope of the last stored write carries the
\* document that write stored, which is what the file now holds, lastModified
\* included.
C27_BroadcastIsStoredDocument ==
    /\ \A c \in Conn : \A i \in 1..Len(sent[c]) :
          sent[c][i].type = "DATA_UPDATE" =>
              \E j \in 1..Len(commits) : commits[j] = sent[c][i].data
    /\ AcceptedWrite =>
          \A c \in Conn :
              WasRecipient(c) =>
                  /\ Len(NewMsgs(c)) = 1
                  /\ NewMsgs(c)[1].type = "DATA_UPDATE"
                  /\ NewMsgs(c)[1].data = Final(commits)
                  /\ NewMsgs(c)[1].data = loadData(TRUE)
                  /\ NewMsgs(c)[1].data.lastModified = file.lastModified

\* A stored write of a candidate that came with a lastModified of its own,
\* broadcast to a registered OPEN socket after the clock had advanced.
C27_Witness ==
    /\ AcceptedWrite
    /\ last.cand.lastModified = 9
    /\ file.lastModified = 1
    /\ \E c \in Conn : WasRecipient(c) /\ Final(sent[c]).type = "DATA_UPDATE"

\* The last envelope sent to c that tells it of a stored document: INIT_DATA
\* and DATA_UPDATE carry one, UPDATE_CONFIRMED answers c's own write.
LatestNews(c) ==
    LET news == {i \in 1..Len(sent[c]) :
                    sent[c][i].type \in {"INIT_DATA", "DATA_UPDATE", "UPDATE_CONFIRMED"}}
    IN sent[c][CHOOSE i \in news : \A j \in news : j <= i]

\* c is registered and OPEN and every send to it has reached its peer.
Healthy(c) == c \in clients /\ readyState[c] = OPEN /\ c \notin broken

\* C28: between handlers, the document a healthy socket received last, by
\* INIT_DATA or DATA_UPDATE, is the stored document, unless the latest stored
\* write was the socket's own DATA_UPDATE, which its UPDATE_CONFIRMED shows.
C28_Convergence ==
    \A c \in Conn :
        Healthy(c) =>
            \/ LatestNews(c).type = "UPDATE_CONFIRMED"
            \/ LatestNews(c).data = file

\* c connected earlier and was out of the registry when the last handler began:
\* its close event, its error event or a clean-up tick had dropped it.
Dropped(c) == prev.readyState[c] # CONNECTING /\ c \notin prev.clients

\* C29: a registered socket has connected and has not been dropped; after a
\* socket's close or error handler it is not in the registry; only its own
\* connection event registers a socket, so a dropped socket stays out, and no
\* broadcast or heartbeat reaches it.
C29_RegistryMembership ==
    /\ \A c \in clients : readyState[c] \in {OPEN, CLOSING}
    /\ last.op \in {"close", "error"} => last.conn \notin clients
    /\ \A c \in clients \ prev.clients :
          last.op = "connection" /\ last.conn = c /\ prev.readyState[c] = CONNECTING
    /\ \A c \in Conn :
          Dropped(c) =>
              /\ c \notin clients
              /\ \A i \in 1..Len(NewMsgs(c)) :
                    NewMsgs(c)[i].type \notin {"DATA_UPDATE", "HEARTBEAT"}

\* A broadcast or a heartbeat ran after a socket's close or error event was
\* handled, and sent that socket nothing.
C29_Witness ==
    /\ last.op \in {"heartbeat", "post", "dataUpdate"}
    /\ \E c \in Conn :
          /\ Dropped(c)
          /\ prev.readyState[c] \in {CLOSING, CLOSED}
          /\ NewMsgs(c) = <<>>

====
